---- MODULE Spec2Model ----
(***************************************************************************)
(* Model of the Jupiter AMM adapter for a swap.io concentrated-liquidity   *)
(* pool (src/src/amm.rs).  The adapter wraps a PoolManager of the          *)
(* swap_io_clmm_rust_sdk crate; the adapter's own code (construction       *)
(* check, dependency enumeration, the account lookups of update, the       *)
(* account count, cloning) is translated from amm.rs, and the crate's      *)
(* operations it calls (PoolManager::new/update, the neighborhood keys,    *)
(* QuoteCalculator, InstructionBuilder) are modelled from their contract   *)
(* in the specification and kept in operators of their own.                *)
(***************************************************************************)
EXTENDS Integers, Sequences, FiniteSets, TLC

(* ------------------------------ bounds --------------------------------- *)
\* tick arrays of the pool are indexed 0..MaxArrayIndex (the tick domain)
MaxArrayIndex == 5
\* account contents are snapshot versions 1..MaxData
MaxData == 2
\* lengths of the raw pool account handed to from_keyed_account: 0..MaxDataLen
MaxDataLen == 9

(* ------------------------- program constants --------------------------- *)
\* pool::NEIGHBORHOOD_SIZE, imported at amm.rs:8 (5 in the spec's scenario)
NEIGHBORHOOD_SIZE == 5
\* "let base_acounts = 13; //with signer"
BASE_ACCOUNTS == 13
\* "let tick_arrsy_bitmap_extension = 1;"
BITMAP_EXTENSION_ACCOUNTS == 1
\* "if pool_data.len() < 8"
DISCRIMINATOR_LEN == 8

(* ------------------------------ addresses ------------------------------ *)
\* A Pubkey is a pair <<kind, index>>.
NoAddr == <<"none", 0>>
ConfigAddr == <<"config", 0>>
MintA == <<"mint", 0>>
MintB == <<"mint", 1>>
OtherMint == <<"mint", 2>>
ExtAddr == <<"bitmap_extension", 0>>
PoolAddr == <<"pool", 0>>
ProgramAddr == <<"program", 0>>
OtherProgram == <<"program", 1>>

ArrayIndexes == 0..MaxArrayIndex
TickArrayAddr(i) == <<"tick_array", i>>
TickArrayAddrs == {TickArrayAddr(i) : i \in ArrayIndexes}
\* the addresses an input mapping of update may hold
Addrs == {ConfigAddr, MintA, MintB, ExtAddr} \cup TickArrayAddrs
Mints == {MintA, MintB, OtherMint}

(* ---------------------------- account data ----------------------------- *)
\* The content of an account is a pair <<kind, version>>.
Absent == <<"absent", 0>>     \* the address is not a key of the AccountMap
Bad == <<"bad", 0>>           \* bytes the collaborator cannot decode
Uninit == <<"uninit", 0>>     \* a tick array that does not exist on-chain yet
NoData == <<"none", 0>>       \* nothing synchronized yet
Data(v) == <<"data", v>>
Versions == 1..MaxData

Range(s) == {s[i] : i \in 1..Len(s)}

Min(a, b) == IF a < b THEN a ELSE b

(* ----------------- swap_io_clmm_rust_sdk (collaborator) ---------------- *)
\* past the top of the tick domain the boundary array is repeated
UpKeys_clamped(cur) ==
  [k \in 1..NEIGHBORHOOD_SIZE |-> TickArrayAddr(Min(cur + k - 1, MaxArrayIndex))]

\* Neighborhood Resolver: the tick arrays from the current one upward, at
\* most NEIGHBORHOOD_SIZE of them, stopping at the top of the tick domain.
UpKeys(cur) ==
  [k \in 1..Min(NEIGHBORHOOD_SIZE, MaxArrayIndex - cur + 1) |-> TickArrayAddr(cur + k - 1)]

\* ... and downward, stopping at the bottom of the tick domain.
DownKeys(cur) ==
  [k \in 1..Min(NEIGHBORHOOD_SIZE, cur + 1) |-> TickArrayAddr(cur - k + 1)]

\* pool_manager.tick_array_bitmap_extension(): an address derived from the pool
tick_array_bitmap_extension(pm) == <<"bitmap_extension", pm.pool_key[2]>>

\* the decoded pool accounts construction may be given
PoolStates ==
  [amm_config : {ConfigAddr}, token_mint_0 : {MintA}, token_mint_1 : {MintB},
   tick_array : ArrayIndexes]

\* PoolManager::new(epoch, pool_key, program_id, pool_state_account): decodes the
\* pool account (decodable: whether its bytes decode, decoded: to what) and
\* derives the first neighborhood; no account content is synchronized yet.
PoolManager_new(epoch, pool_key, program_id, account) ==
  IF ~account.decodable
  THEN [ok |-> FALSE, err |-> "DecodeError", pm |-> NoData]
  ELSE [ok |-> TRUE, err |-> "",
        pm |-> [pool_key |-> pool_key, program_id |-> program_id, epoch |-> epoch,
                pool_state |-> account.decoded,
                up_tick_array_keys |-> UpKeys(account.decoded.tick_array),
                down_tick_array_keys |-> DownKeys(account.decoded.tick_array),
                amm_config |-> NoData, mint_0 |-> NoData, mint_1 |-> NoData,
                bitmap_extension |-> NoData, tick_arrays |-> <<>>]]

\* the content decoded for tick array a, found at a's place among the keys
ContentAt(keys, accounts, a) ==
  LET at == {i \in 1..Min(Len(keys), Len(accounts)) : keys[i] = a}
  IN  IF at = {} THEN NoData ELSE accounts[CHOOSE i \in at : TRUE]

\* the decoded tick arrays the manager keeps: those of its up keys, then those
\* of its down keys, by address
TickArraysOf(pm, up, down) ==
  [a \in Range(pm.up_tick_array_keys) \cup Range(pm.down_tick_array_keys) |->
     IF ContentAt(pm.up_tick_array_keys, up, a) # NoData
     THEN ContentAt(pm.up_tick_array_keys, up, a)
     ELSE ContentAt(pm.down_tick_array_keys, down, a)]

\* the fixed accounts are stored before the tick arrays are decoded
PoolManager_update_partial(pm, accounts, up, down, newTickArray) ==
  IF \E i \in 1..Len(accounts) : accounts[i][1] # "data"
  THEN [ok |-> FALSE, err |-> "DecodeError", pm |-> pm]
  ELSE IF \/ \E i \in 1..Len(up) : up[i] = Bad
          \/ \E i \in 1..Len(down) : down[i] = Bad
  THEN [ok |-> FALSE, err |-> "DecodeError",
        pm |-> [pm EXCEPT !.amm_config = accounts[1], !.mint_0 = accounts[2],
                          !.mint_1 = accounts[3], !.bitmap_extension = accounts[4]]]
  ELSE [ok |-> TRUE, err |-> "",
        pm |-> [pm EXCEPT !.amm_config = accounts[1], !.mint_0 = accounts[2],
                          !.mint_1 = accounts[3], !.bitmap_extension = accounts[4],
                          !.tick_arrays = TickArraysOf(pm, up, down),
                          !.pool_state.tick_array = newTickArray,
                          !.up_tick_array_keys = UpKeys(newTickArray),
                          !.down_tick_array_keys = DownKeys(newTickArray)]]

\* the neighborhood keys are left as they were
PoolManager_update_stale(pm, accounts, up, down, newTickArray) ==
  IF \/ \E i \in 1..Len(accounts) : accounts[i][1] # "data"
     \/ \E i \in 1..Len(up) : up[i] = Bad
     \/ \E i \in 1..Len(down) : down[i] = Bad
  THEN [ok |-> FALSE, err |-> "DecodeError", pm |-> pm]
  ELSE [ok |-> TRUE, err |-> "",
        pm |-> [pm EXCEPT !.amm_config = accounts[1], !.mint_0 = accounts[2],
                          !.mint_1 = accounts[3], !.bitmap_extension = accounts[4],
                          !.tick_arrays = TickArraysOf(pm, up, down),
                          !.pool_state.tick_array = newTickArray]]

\* PoolManager::update(fixed accounts, up tick arrays, down tick arrays): decodes
\* the batch; a decode failure leaves the manager as it was; otherwise the
\* contents are replaced as one unit, the price state is re-derived
\* (newTickArray is the tick array the collaborator finds the price in) and the
\* neighborhood is resolved again for it.
PoolManager_update(pm, accounts, up, down, newTickArray) ==
  IF \/ \E i \in 1..Len(accounts) : accounts[i][1] # "data"
     \/ \E i \in 1..Len(up) : up[i] = Bad
     \/ \E i \in 1..Len(down) : down[i] = Bad
  THEN [ok |-> FALSE, err |-> "DecodeError", pm |-> pm]
  ELSE [ok |-> TRUE, err |-> "",
        pm |-> [pm EXCEPT !.amm_config = accounts[1], !.mint_0 = accounts[2],
                          !.mint_1 = accounts[3], !.bitmap_extension = accounts[4],
                          !.tick_arrays = TickArraysOf(pm, up, down),
                          !.pool_state.tick_array = newTickArray,
                          !.up_tick_array_keys = UpKeys(newTickArray),
                          !.down_tick_array_keys = DownKeys(newTickArray)]]

\* pool_manager.get_reserve_mints(): the two mint addresses of the pool
PoolManager_get_reserve_mints(pm) ==
  <<pm.pool_state.token_mint_0, pm.pool_state.token_mint_1>>

\* QuoteCalculator::calculate_quote: UnknownMint unless both mints are reserves
\* of the pool; otherwise a quote computed from the mirror (its arithmetic is
\* not modelled: the quote is the tuple of what it is computed from).  What the
\* calculator answers to a request naming the same reserve mint twice is not
\* fixed by its contract: both outcomes are possible.
calculate_quote(input_mint, output_mint, exact_in, amount, pm) ==
  LET reserves == Range(PoolManager_get_reserve_mints(pm))
      computed == [ok |-> TRUE, err |-> "",
                   quote |-> <<input_mint, output_mint, exact_in, amount,
                               pm.pool_state.tick_array, pm.amm_config,
                               pm.bitmap_extension, pm.tick_arrays>>]
      unknown == [ok |-> FALSE, err |-> "UnknownMint", quote |-> <<>>]
  IN  IF input_mint \notin reserves \/ output_mint \notin reserves THEN {unknown}
      ELSE IF input_mint = output_mint THEN {unknown, computed}
      ELSE {computed}

\* InstructionBuilder::build_swap_instruction: UnknownMint under the same
\* condition; the account metas it emits are not modelled.
build_swap_instruction(pm, source_mint, destination_mint) ==
  LET reserves == Range(PoolManager_get_reserve_mints(pm))
  IN  IF source_mint \notin reserves \/ destination_mint \notin reserves
      THEN {[ok |-> FALSE, err |-> "UnknownMint"]}
      ELSE IF source_mint = destination_mint
      THEN {[ok |-> FALSE, err |-> "UnknownMint"], [ok |-> TRUE, err |-> ""]}
      ELSE {[ok |-> TRUE, err |-> ""]}

(* ----------------------- SwapIoClmmAdapter (amm.rs) -------------------- *)
Ok(pm) == [ok |-> TRUE, err |-> "", pm |-> pm]
Err(msg, pm) == [ok |-> FALSE, err |-> msg, pm |-> pm]

\* SwapIoClmmAdapter::new: PoolManager::new(...)? wrapped in Self
new(pool_key, pool_state_account, program_id, epoch) ==
  PoolManager_new(epoch, pool_key, program_id, pool_state_account)

from_keyed_account_late_check(keyed_account, epoch) ==
  IF keyed_account.len <= DISCRIMINATOR_LEN
  THEN [ok |-> FALSE, err |-> "Account data too short", pm |-> NoData, decoded |-> FALSE]
  ELSE LET r == new(keyed_account.key, keyed_account, keyed_account.owner, epoch)
       IN  [ok |-> r.ok, err |-> r.err, pm |-> r.pm, decoded |-> TRUE]

\* from_keyed_account: the length check, then new() with the account's key
\* and owner and the epoch of the context's clock.  decoded tells whether
\* the collaborator's decoder was invoked.
from_keyed_account(keyed_account, epoch) ==
  IF keyed_account.len < DISCRIMINATOR_LEN
  THEN [ok |-> FALSE, err |-> "Account data too short", pm |-> NoData, decoded |-> FALSE]
  ELSE LET r == new(keyed_account.key, keyed_account, keyed_account.owner, epoch)
       IN  [ok |-> r.ok, err |-> r.err, pm |-> r.pm, decoded |-> TRUE]

program_id(pm) == pm.program_id

key_config(pm) == pm.pool_state.amm_config

key(pm) == pm.pool_key

get_reserve_mints(pm) == PoolManager_get_reserve_mints(pm)

get_up_tick_array_keys(pm) == pm.up_tick_array_keys

get_down_tick_array_keys(pm) == pm.down_tick_array_keys

\* an account that does not exist on-chain yet is taken for a missing one
get_tick_arrays_accounts_strict(tick_array_keys, account_map) ==
  IF \E i \in 1..Len(tick_array_keys) :
       account_map[tick_array_keys[i]] \in {Absent, Uninit}
  THEN [ok |-> FALSE, err |-> "TickArray account not found", accounts |-> <<>>]
  ELSE [ok |-> TRUE, err |-> "",
        accounts |-> [i \in 1..Len(tick_array_keys) |-> account_map[tick_array_keys[i]]]]

\* get_tick_arrays_accounts: the accounts of the keys, in order; the first key
\* that is not in the map ends the loop with the error.
get_tick_arrays_accounts(tick_array_keys, account_map) ==
  IF \E i \in 1..Len(tick_array_keys) : account_map[tick_array_keys[i]] = Absent
  THEN [ok |-> FALSE, err |-> "TickArray account not found", accounts |-> <<>>]
  ELSE [ok |-> TRUE, err |-> "",
        accounts |-> [i \in 1..Len(tick_array_keys) |-> account_map[tick_array_keys[i]]]]

get_accounts_to_update_down_first(pm) ==
  <<pm.pool_state.amm_config, pm.pool_state.token_mint_0, pm.pool_state.token_mint_1,
    tick_array_bitmap_extension(pm)>>
    \o pm.down_tick_array_keys \o pm.up_tick_array_keys

get_accounts_to_update_no_extension(pm) ==
  <<pm.pool_state.amm_config, pm.pool_state.token_mint_0, pm.pool_state.token_mint_1>>
    \o pm.up_tick_array_keys \o pm.down_tick_array_keys

\* get_accounts_to_update: config, mint 0, mint 1, the bitmap extension, the
\* up keys, the down keys
get_accounts_to_update(pm) ==
  <<pm.pool_state.amm_config, pm.pool_state.token_mint_0, pm.pool_state.token_mint_1,
    tick_array_bitmap_extension(pm)>>
    \o pm.up_tick_array_keys \o pm.down_tick_array_keys

\* a slip: the manager is refreshed with what is there before the down side
\* is looked up
update_eager(pm, account_map, newTickArray) ==
  LET up == get_tick_arrays_accounts(pm.up_tick_array_keys, account_map)
      down == get_tick_arrays_accounts(pm.down_tick_array_keys, account_map)
      fixed == <<account_map[pm.pool_state.amm_config],
                 account_map[pm.pool_state.token_mint_0],
                 account_map[pm.pool_state.token_mint_1],
                 account_map[tick_array_bitmap_extension(pm)]>>
  IN  IF fixed[1] = Absent THEN Err("AmmConfig account not found", pm)
      ELSE IF fixed[2] = Absent THEN Err("Mint0 account not found", pm)
      ELSE IF fixed[3] = Absent THEN Err("Mint1 account not found", pm)
      ELSE IF fixed[4] = Absent
      THEN Err("TickArrayBitmapExtension account not found", pm)
      ELSE IF ~up.ok THEN Err(up.err, pm)
      ELSE IF ~down.ok
      THEN Err(down.err, PoolManager_update(pm, fixed, up.accounts, <<>>, newTickArray).pm)
      ELSE PoolManager_update(pm, fixed, up.accounts, down.accounts, newTickArray)

\* a slip: the second mint is looked up under the first mint's address
update_mint_0_twice(pm, account_map, newTickArray) ==
  LET up == get_tick_arrays_accounts(pm.up_tick_array_keys, account_map)
      down == get_tick_arrays_accounts(pm.down_tick_array_keys, account_map)
      fixed == <<account_map[pm.pool_state.amm_config],
                 account_map[pm.pool_state.token_mint_0],
                 account_map[pm.pool_state.token_mint_0],
                 account_map[tick_array_bitmap_extension(pm)]>>
  IN  IF fixed[1] = Absent THEN Err("AmmConfig account not found", pm)
      ELSE IF fixed[2] = Absent THEN Err("Mint0 account not found", pm)
      ELSE IF fixed[3] = Absent THEN Err("Mint1 account not found", pm)
      ELSE IF fixed[4] = Absent
      THEN Err("TickArrayBitmapExtension account not found", pm)
      ELSE IF ~up.ok THEN Err(up.err, pm)
      ELSE IF ~down.ok THEN Err(down.err, pm)
      ELSE PoolManager_update(pm, fixed, up.accounts, down.accounts, newTickArray)

\* update: the four fixed lookups in order, the up side, the down side, each
\* returning its error at once; only then pool_manager.update.
update(pm, account_map, newTickArray) ==
  LET up == get_tick_arrays_accounts(pm.up_tick_array_keys, account_map)
      down == get_tick_arrays_accounts(pm.down_tick_array_keys, account_map)
      fixed == <<account_map[pm.pool_state.amm_config],
                 account_map[pm.pool_state.token_mint_0],
                 account_map[pm.pool_state.token_mint_1],
                 account_map[tick_array_bitmap_extension(pm)]>>
  IN  IF fixed[1] = Absent THEN Err("AmmConfig account not found", pm)
      ELSE IF fixed[2] = Absent THEN Err("Mint0 account not found", pm)
      ELSE IF fixed[3] = Absent THEN Err("Mint1 account not found", pm)
      ELSE IF fixed[4] = Absent
      THEN Err("TickArrayBitmapExtension account not found", pm)
      ELSE IF ~up.ok THEN Err(up.err, pm)
      ELSE IF ~down.ok THEN Err(down.err, pm)
      ELSE PoolManager_update(pm, fixed, up.accounts, down.accounts, newTickArray)

\* quote: calculate_quote's result, its fields copied into a Quote
quote(pm, quote_params) ==
  calculate_quote(quote_params.input_mint, quote_params.output_mint,
                  quote_params.exact_in, quote_params.amount, pm)

\* get_swap_and_account_metas: build_swap_instruction's accounts, passed on
get_swap_and_account_metas(pm, swap_params) ==
  build_swap_instruction(pm, swap_params.source_mint, swap_params.destination_mint)

get_accounts_len_both_sides(pm) ==
  BASE_ACCOUNTS + BITMAP_EXTENSION_ACCOUNTS + 2 * NEIGHBORHOOD_SIZE

\* get_accounts_len: 13 + 1 + NEIGHBORHOOD_SIZE
get_accounts_len(pm) ==
  BASE_ACCOUNTS + BITMAP_EXTENSION_ACCOUNTS + NEIGHBORHOOD_SIZE

\* a clone that keeps pointing at the source's manager
clone_amm_shared(hp, src, fresh) == [cell |-> src, heap |-> hp]

\* clone_amm: Box::new(self.clone()); the derived Clone copies the
\* pool_manager into the new adapter, which lives in a cell of its own.
clone_amm(hp, src, fresh) == [cell |-> fresh, heap |-> [hp EXCEPT ![fresh] = hp[src]]]

(* ------------------------------- inputs -------------------------------- *)
\* The AccountMaps handed to update: every address holds content of one
\* snapshot version, except for one defect: some addresses are not in the map
\* (any one address, or a fixed account together with a tick array, or two
\* neighbouring tick arrays), or one account is undecodable, or one tick array
\* is uninitialized.
\* the tick array at the bottom of the tick domain may not exist on-chain yet
UninitTickArrays == {TickArrayAddr(0)}

MissingSets ==
  {{a} : a \in Addrs}
  \cup {{ExtAddr, TickArrayAddr(MaxArrayIndex)}, {MintB, ExtAddr}}
  \cup {{TickArrayAddr(i), TickArrayAddr(i + 1)} : i \in 0..(MaxArrayIndex - 1)}

Defects ==
  {[absent |-> {}, bad |-> NoAddr, uninit |-> NoAddr]}
  \cup {[absent |-> s, bad |-> NoAddr, uninit |-> NoAddr] : s \in MissingSets}
  \cup {[absent |-> {}, bad |-> a, uninit |-> NoAddr] : a \in Addrs}
  \cup {[absent |-> {}, bad |-> NoAddr, uninit |-> a] : a \in UninitTickArrays}

AccountMapOf(v, d) ==
  [a \in Addrs |-> IF a \in d.absent THEN Absent
                   ELSE IF a = d.bad THEN Bad
                   ELSE IF a = d.uninit THEN Uninit
                   ELSE Data(v)]

AbsentFrom(account_map) == {a \in Addrs : account_map[a] = Absent}

\* the first address of a sequence that the map does not hold, or NoAddr
FirstAbsent(addresses, account_map) ==
  LET at == {i \in 1..Len(addresses) : account_map[addresses[i]] = Absent}
  IN  IF at = {} THEN NoAddr
      ELSE addresses[CHOOSE i \in at : \A j \in at : i <= j]

\* the addresses of a sequence whose account in the map has the given content
Holding(addresses, account_map, content) ==
  {a \in Range(addresses) : account_map[a] = content}

AccountMaps == {AccountMapOf(v, d) : v \in Versions, d \in Defects}

\* a selection of them: complete, or lacking the config account or the bottom
\* tick array, or with an undecodable config account or an uninitialized
\* bottom tick array
SomeAccountMaps ==
  {m \in AccountMaps :
     \A a \in Addrs \ {ConfigAddr, TickArrayAddr(0)} : m[a][1] = "data"}

\* the ends of the tick domain
SomeArrayIndexes == {0, MaxArrayIndex}

KeyedAccounts ==
  [key : {PoolAddr}, owner : {ProgramAddr, OtherProgram}, len : 0..MaxDataLen,
   decodable : BOOLEAN, decoded : PoolStates]

Epochs == {0}

QuoteParamsSet ==
  [input_mint : Mints, output_mint : Mints, exact_in : BOOLEAN, amount : {1}]

SwapParamsSet == [source_mint : Mints, destination_mint : Mints]

(* ------------------------------- state --------------------------------- *)
\* The aggregator holds up to two adapters: the one it constructed and a
\* clone of it.  amm[h] is the cell the adapter's pool_manager lives in
\* ("none" while the adapter does not exist) and heap[c] that pool_manager.
Handles == {"original", "clone"}

VARIABLES
  heap,     \* cell -> PoolManager
  amm,      \* handle -> cell
  solo,     \* history: handle -> the manager its own updates alone produce
  built,    \* history: the key, the owner, the epoch and the decoded config and
            \* mint addresses of the construction
  lastOp    \* history: the last call, its inputs and its result

vars == <<heap, amm, solo, built, lastOp>>

Live(h) == amm[h] # "none"
Mirror(h) == heap[amm[h]]

NoOp ==
  [op |-> "none", h |-> "none", ok |-> TRUE, err |-> "", lacks_any |-> FALSE,
   lacks_declared |-> FALSE, first_absent |-> NoAddr, bad_declared |-> NoAddr,
   uninit_declared |-> NoAddr, moved |-> FALSE, decoded |-> FALSE, len |-> 0,
   decodable |-> FALSE, result |-> <<>>]

\* An action is taken in full, over all of its inputs and with the call
\* recorded in lastOp, or over a selection of its inputs and unrecorded.
Log(full, rec) == IF full THEN rec ELSE NoOp
MapsOf(full) == IF full THEN AccountMaps ELSE SomeAccountMaps
ArrayIndexesOf(full) == IF full THEN ArrayIndexes ELSE SomeArrayIndexes

Init ==
  /\ heap = [c \in Handles |-> NoData]
  /\ amm = [h \in Handles |-> "none"]
  /\ solo = [h \in Handles |-> NoData]
  /\ built = NoData
  /\ lastOp = NoOp

(* ------------------------------ actions -------------------------------- *)
\* Amm::from_keyed_account, called by the aggregator for the pool
Construct(full) ==
  /\ ~Live("original")
  /\ \E ka \in KeyedAccounts, epoch \in Epochs :
       LET r == from_keyed_account(ka, epoch)
       IN  /\ IF r.ok
              THEN /\ heap' = [heap EXCEPT !["original"] = r.pm]
                   /\ amm' = [amm EXCEPT !["original"] = "original"]
                   /\ solo' = [solo EXCEPT !["original"] = r.pm]
                   /\ built' = [key |-> ka.key, owner |-> ka.owner, epoch |-> epoch,
                                amm_config |-> ka.decoded.amm_config,
                                token_mint_0 |-> ka.decoded.token_mint_0,
                                token_mint_1 |-> ka.decoded.token_mint_1]
              ELSE UNCHANGED <<heap, amm, solo, built>>
           /\ lastOp' = Log(full,
                            [NoOp EXCEPT !.op = "from_keyed_account", !.h = "original",
                                         !.ok = r.ok, !.err = r.err,
                                         !.decoded = r.decoded, !.len = ka.len,
                                         !.decodable = ka.decodable])

\* Amm::update on one adapter.  newTickArray is where the collaborator finds
\* the price when the batch decodes.  lastOp tells, of the addresses that
\* get_accounts_to_update() returned before the call, whether the mapping
\* lacked one and which came first, whether one was undecodable and which
\* tick array was uninitialized; and whether it lacked any address at all.
Update(h, full) ==
  /\ Live(h)
  /\ \E account_map \in MapsOf(full) :
       LET pre == Mirror(h)
           succeeds == update(pre, account_map, pre.pool_state.tick_array).ok
       IN  \E newTickArray \in (IF succeeds THEN ArrayIndexesOf(full)
                                ELSE {pre.pool_state.tick_array}) :
             LET r == update(pre, account_map, newTickArray)
             IN  /\ heap' = [heap EXCEPT ![amm[h]] = r.pm]
                 /\ solo' = [solo EXCEPT ![h] = update(solo[h], account_map, newTickArray).pm]
                 /\ lastOp' = Log(full,
                                  [NoOp EXCEPT !.op = "update", !.h = h, !.ok = r.ok,
                                               !.err = r.err,
                                               !.lacks_any = (AbsentFrom(account_map) # {}),
                                               !.lacks_declared =
                                                 (AbsentFrom(account_map)
                                                    \cap Range(get_accounts_to_update(pre)) # {}),
                                               !.first_absent =
                                                 FirstAbsent(get_accounts_to_update(pre), account_map),
                                               !.bad_declared =
                                                 IF Holding(get_accounts_to_update(pre), account_map, Bad) = {}
                                                 THEN NoAddr
                                                 ELSE CHOOSE a \in Holding(get_accounts_to_update(pre),
                                                                           account_map, Bad) : TRUE,
                                               !.uninit_declared =
                                                 IF Holding(get_accounts_to_update(pre), account_map, Uninit) = {}
                                                 THEN NoAddr
                                                 ELSE CHOOSE a \in Holding(get_accounts_to_update(pre),
                                                                           account_map, Uninit) : TRUE,
                                               !.moved = (r.ok /\ newTickArray # pre.pool_state.tick_array)])
                 /\ UNCHANGED <<amm, built>>

\* Amm::quote on one adapter (&self)
Quote(h, full) ==
  /\ Live(h)
  /\ \E quote_params \in QuoteParamsSet :
       \E r \in quote(Mirror(h), quote_params) :
         /\ lastOp' = Log(full, [NoOp EXCEPT !.op = "quote", !.h = h, !.ok = r.ok,
                                               !.err = r.err])
         /\ UNCHANGED <<heap, amm, solo, built>>

\* Amm::get_swap_and_account_metas on one adapter (&self)
GetSwapAndAccountMetas(h, full) ==
  /\ Live(h)
  /\ \E swap_params \in SwapParamsSet :
       \E r \in get_swap_and_account_metas(Mirror(h), swap_params) :
         /\ lastOp' = Log(full, [NoOp EXCEPT !.op = "get_swap_and_account_metas",
                                               !.h = h, !.ok = r.ok, !.err = r.err])
         /\ UNCHANGED <<heap, amm, solo, built>>

\* a slip: the up keys are moved out of the manager instead of copied
GetAccountsToUpdate_draining(h, full) ==
  /\ Live(h)
  /\ lastOp' = Log(full, [NoOp EXCEPT !.op = "get_accounts_to_update", !.h = h,
                                      !.result = get_accounts_to_update(Mirror(h))])
  /\ heap' = [heap EXCEPT ![amm[h]].up_tick_array_keys = <<>>]
  /\ UNCHANGED <<amm, solo, built>>

\* Amm::get_accounts_to_update on one adapter (&self)
GetAccountsToUpdate(h, full) ==
  /\ Live(h)
  /\ lastOp' = Log(full, [NoOp EXCEPT !.op = "get_accounts_to_update", !.h = h,
                                      !.result = get_accounts_to_update(Mirror(h))])
  /\ UNCHANGED <<heap, amm, solo, built>>

\* Amm::get_reserve_mints on one adapter (&self)
GetReserveMints(h, full) ==
  /\ Live(h)
  /\ lastOp' = Log(full, [NoOp EXCEPT !.op = "get_reserve_mints", !.h = h,
                                      !.result = get_reserve_mints(Mirror(h))])
  /\ UNCHANGED <<heap, amm, solo, built>>

\* Amm::get_accounts_len on one adapter (&self)
GetAccountsLen(h, full) ==
  /\ Live(h)
  /\ lastOp' = Log(full, [NoOp EXCEPT !.op = "get_accounts_len", !.h = h,
                                      !.result = <<get_accounts_len(Mirror(h))>>])
  /\ UNCHANGED <<heap, amm, solo, built>>

\* Amm::clone_amm on the constructed adapter
CloneAmm ==
  /\ Live("original")
  /\ ~Live("clone")
  /\ LET r == clone_amm(heap, amm["original"], "clone")
     IN  /\ heap' = r.heap
         /\ amm' = [amm EXCEPT !["clone"] = r.cell]
  /\ solo' = [solo EXCEPT !["clone"] = solo["original"]]
  /\ UNCHANGED <<built, lastOp>>

(* --------------------------- specifications ---------------------------- *)
\* One adapter, with the history of its calls.
Next ==
  \/ Construct(TRUE)
  \/ Update("original", TRUE)
  \/ Quote("original", TRUE)
  \/ GetSwapAndAccountMetas("original", TRUE)
  \/ GetAccountsToUpdate("original", TRUE)
  \/ GetReserveMints("original", TRUE)
  \/ GetAccountsLen("original", TRUE)

Spec == Init /\ [][Next]_vars

\* The adapter and its clone, driven in any interleaving.
UpdateAny == \E h \in Handles : Update(h, FALSE)
QuoteAny == \E h \in Handles : Quote(h, FALSE)
GetSwapAny == \E h \in Handles : GetSwapAndAccountMetas(h, FALSE)
GetAccountsToUpdateAny == \E h \in Handles : GetAccountsToUpdate(h, FALSE)
GetReserveMintsAny == \E h \in Handles : GetReserveMints(h, FALSE)
GetAccountsLenAny == \E h \in Handles : GetAccountsLen(h, FALSE)

NextClones ==
  \/ Construct(FALSE)
  \/ UpdateAny
  \/ QuoteAny
  \/ GetSwapAny
  \/ GetAccountsToUpdateAny
  \/ GetReserveMintsAny
  \/ GetAccountsLenAny
  \/ CloneAmm

SpecClones == Init /\ [][NextClones]_vars

(* ------------------------------ properties ----------------------------- *)
\* what a caller can read off an adapter
Observed(pm) ==
  [accounts |-> get_accounts_to_update(pm),
   mints |-> get_reserve_mints(pm),
   quotes |-> [q \in QuoteParamsSet |-> quote(pm, q)]]

Original == Mirror("original")
ObservedOriginal == Observed(Original)
Synced(pm) == pm.amm_config # NoData

NotFoundErrors ==
  {"AmmConfig account not found", "Mint0 account not found", "Mint1 account not found",
   "TickArrayBitmapExtension account not found", "TickArray account not found"}

\* the addresses an error of update can stand for: each fixed lookup has a
\* message of its own; every tick-array lookup, up or down, has the same one
addresses_named(pm, err) ==
  IF err = "AmmConfig account not found" THEN {pm.pool_state.amm_config}
  ELSE IF err = "Mint0 account not found" THEN {pm.pool_state.token_mint_0}
  ELSE IF err = "Mint1 account not found" THEN {pm.pool_state.token_mint_1}
  ELSE IF err = "TickArrayBitmapExtension account not found"
  THEN {tick_array_bitmap_extension(pm)}
  ELSE IF err = "TickArray account not found"
  THEN Range(pm.up_tick_array_keys) \cup Range(pm.down_tick_array_keys)
  ELSE {}

\* C1: an update whose input mapping lacks an address that
\* get_accounts_to_update() declared returns an error, and what
\* get_accounts_to_update(), get_reserve_mints() and every quote return is the
\* same after the call as before it.
C1_MissingAccountLeavesMirror ==
  [][(lastOp'.op = "update" /\ lastOp'.lacks_declared)
       => (~lastOp'.ok /\ ObservedOriginal' = ObservedOriginal)]_vars

\* a synchronized adapter has just refused an update that lacked a tick array
C1_Witness ==
  /\ lastOp.op = "update"
  /\ ~lastOp.ok
  /\ lastOp.lacks_declared
  /\ lastOp.err = "TickArray account not found"
  /\ Synced(Original)

\* C2: an update given a mapping that holds every address the preceding
\* get_accounts_to_update() returned never fails for a missing account.
C2_DeclaredIsComplete ==
  [][(lastOp'.op = "update" /\ ~lastOp'.lacks_declared)
       => lastOp'.err \notin NotFoundErrors]_vars

\* an update succeeded on a mapping that lacked only an undeclared address
C2_Witness ==
  /\ lastOp.op = "update"
  /\ lastOp.ok
  /\ lastOp.lacks_any

\* C4 as stated: with a neighborhood size of 5, get_accounts_len() is
\* 24 = 13 + 1 + 2 * 5.
C4_LenCountsBothSides ==
  (Live("original") /\ NEIGHBORHOOD_SIZE = 5) => get_accounts_len(Original) = 24

\* C4 (amended): with a neighborhood size of 5, get_accounts_len() is
\* 19 = 13 + 1 + 5: the tick arrays of one side are counted.
C4_LenCountsOneSide ==
  (Live("original") /\ NEIGHBORHOOD_SIZE = 5) => get_accounts_len(Original) = 19

\* an adapter whose up neighborhood is full
C4_Witness ==
  /\ Live("original")
  /\ NEIGHBORHOOD_SIZE = 5
  /\ Len(get_up_tick_array_keys(Original)) = 5
  /\ lastOp.op = "update"

\* C5: the original and the clone share nothing: in every interleaving of
\* their updates each adapter is in the state its own updates alone produce
\* (so key(), program_id(), get_reserve_mints(), get_accounts_to_update() and
\* the quotes of one are untouched by the updates of the other).
C5_CloneIsIndependent ==
  \A h \in Handles : Live(h) => Mirror(h) = solo[h]

\* both adapters are synchronized and they have diverged
C5_Witness ==
  /\ Live("clone")
  /\ Synced(Mirror("clone"))
  /\ Synced(Original)
  /\ Observed(Mirror("clone")) # ObservedOriginal

\* C7: get_accounts_to_update() is the config address, mint 0 and mint 1 of
\* the constructed pool, the pool's bitmap-extension address, the up
\* neighborhood in order and the down neighborhood in order, and nothing else.
C7_AccountsToUpdateOrder ==
  Live("original") =>
    LET a == get_accounts_to_update(Original)
        up == get_up_tick_array_keys(Original)
        down == get_down_tick_array_keys(Original)
    IN  /\ Len(a) = 4 + Len(up) + Len(down)
        /\ a[1] = built.amm_config
        /\ a[2] = built.token_mint_0
        /\ a[3] = built.token_mint_1
        /\ a[4] = ExtAddr
        /\ \A i \in 1..Len(up) : a[4 + i] = up[i]
        /\ \A j \in 1..Len(down) : a[4 + Len(up) + j] = down[j]

\* a synchronized adapter whose two neighborhoods differ
C7_Witness ==
  /\ Live("original")
  /\ Synced(Original)
  /\ get_up_tick_array_keys(Original) # get_down_tick_array_keys(Original)
  /\ Len(get_down_tick_array_keys(Original)) > 1

\* the tick-array part of get_accounts_to_update()
DeclaredNeighborhood ==
  SubSeq(get_accounts_to_update(Original), 5, Len(get_accounts_to_update(Original)))

CurrentTickArray == Original.pool_state.tick_array

\* C8: after a successful update the tick-array addresses of
\* get_accounts_to_update() are the up and down neighborhoods of the price
\* just synchronized, and when the price moved to another tick array they are
\* not those of before.
C8_NeighborhoodFollowsPrice ==
  [][(lastOp'.op = "update" /\ lastOp'.ok)
       => /\ DeclaredNeighborhood' = UpKeys(CurrentTickArray') \o DownKeys(CurrentTickArray')
          /\ lastOp'.moved => DeclaredNeighborhood' # DeclaredNeighborhood]_vars

\* a successful update has moved the price into another tick array
C8_Witness ==
  /\ lastOp.op = "update"
  /\ lastOp.ok
  /\ lastOp.moved

\* C9: construction from fewer than 8 bytes fails with "Account data too
\* short", makes no adapter and does not reach the decoder; from 8 bytes or
\* more it reaches the decoder and fails exactly when the decoder fails.
C9_ConstructionLengthCheck ==
  lastOp.op = "from_keyed_account" =>
    /\ lastOp.len < 8 =>
         (~lastOp.ok /\ lastOp.err = "Account data too short" /\ ~lastOp.decoded)
    /\ lastOp.len >= 8 => (lastOp.decoded /\ (lastOp.ok <=> lastOp.decodable))
    /\ lastOp.ok <=> Live("original")

\* a construction from 7 decodable bytes has failed
C9_Witness ==
  /\ lastOp.op = "from_keyed_account"
  /\ lastOp.len = 7
  /\ lastOp.decodable
  /\ ~lastOp.ok

\* C10: key() and program_id() of the adapter and of its clone are the pool
\* address and the owner given at construction, whatever has been called.
C10_IdentityIsImmutable ==
  \A h \in Handles :
    Live(h) => (key(Mirror(h)) = built.key /\ program_id(Mirror(h)) = built.owner)

\* the adapter and its clone have both been updated, to different prices
C10_Witness ==
  /\ Live("clone")
  /\ Synced(Mirror("clone"))
  /\ Synced(Original)
  /\ Mirror("clone").pool_state.tick_array # CurrentTickArray

\* C11: whatever updates have succeeded or failed, the config address and the
\* two mint addresses that get_accounts_to_update() declares and that update
\* looks up, and the pair get_reserve_mints() returns, are those decoded at
\* construction.
C11_ConfigReferenceIsFixed ==
  Live("original") =>
    /\ get_accounts_to_update(Original)[1] = built.amm_config
    /\ get_accounts_to_update(Original)[2] = built.token_mint_0
    /\ get_accounts_to_update(Original)[3] = built.token_mint_1
    /\ get_reserve_mints(Original) = <<built.token_mint_0, built.token_mint_1>>
    /\ (lastOp.op = "update" /\ lastOp.first_absent = built.amm_config)
         => lastOp.err = "AmmConfig account not found"
    /\ (lastOp.op = "update" /\ lastOp.first_absent = built.token_mint_0)
         => lastOp.err = "Mint0 account not found"
    /\ (lastOp.op = "update" /\ lastOp.first_absent = built.token_mint_1)
         => lastOp.err = "Mint1 account not found"

\* a synchronized adapter has refused an update for the second mint
C11_Witness ==
  /\ lastOp.op = "update"
  /\ Synced(Original)
  /\ lastOp.first_absent = built.token_mint_1
  /\ ~lastOp.ok

\* C12: an update whose mapping holds every declared address but with one of
\* them undecodable (the config, a mint, the bitmap extension or a tick array)
\* returns DecodeError, and what get_accounts_to_update(), get_reserve_mints()
\* and every quote return is the same after the call as before it.
C12_DecodeErrorLeavesMirror ==
  [][(/\ lastOp'.op = "update"
      /\ lastOp'.bad_declared # NoAddr
      /\ lastOp'.first_absent = NoAddr)
       => (/\ ~lastOp'.ok
           /\ lastOp'.err = "DecodeError"
           /\ ObservedOriginal' = ObservedOriginal)]_vars

\* a synchronized adapter has refused an update for an undecodable tick array
C12_Witness ==
  /\ lastOp.op = "update"
  /\ lastOp.bad_declared \in TickArrayAddrs
  /\ lastOp.err = "DecodeError"
  /\ Synced(Original)

\* C13 as stated: when update fails because the mapping lacks a declared
\* account, its error names one address, the first absent one in the order
\* config, mint-0, mint-1, bitmap extension, up tick arrays, down tick arrays.
C13_ErrorCarriesFirstAbsent ==
  (lastOp.op = "update" /\ lastOp.lacks_declared)
    => addresses_named(Original, lastOp.err) = {lastOp.first_absent}

\* no address occurs twice in the sequence
NoDuplicates(keys) ==
  \A i, j \in 1..Len(keys) : keys[i] = keys[j] => i = j

\* C14: each neighborhood holds at most NEIGHBORHOOD_SIZE addresses, all of
\* tick arrays of the domain and none twice, and exactly NEIGHBORHOOD_SIZE
\* unless it ends at the boundary array of its side; so that
\* get_accounts_to_update() returns at most 4 + 2 * NEIGHBORHOOD_SIZE addresses.
C14_NeighborhoodIsBounded ==
  Live("original") =>
    LET up == get_up_tick_array_keys(Original)
        down == get_down_tick_array_keys(Original)
    IN  /\ Len(up) \in 1..NEIGHBORHOOD_SIZE
        /\ Len(down) \in 1..NEIGHBORHOOD_SIZE
        /\ Range(up) \cup Range(down) \subseteq TickArrayAddrs
        /\ NoDuplicates(up)
        /\ NoDuplicates(down)
        /\ Len(up) = NEIGHBORHOOD_SIZE \/ up[Len(up)] = TickArrayAddr(MaxArrayIndex)
        /\ Len(down) = NEIGHBORHOOD_SIZE \/ down[Len(down)] = TickArrayAddr(0)
        /\ Len(get_accounts_to_update(Original)) <= 4 + 2 * NEIGHBORHOOD_SIZE

\* an update has moved the price near the top of the domain: the up side is
\* truncated and the down side is full
C14_Witness ==
  /\ lastOp.op = "update"
  /\ lastOp.moved
  /\ Len(get_up_tick_array_keys(Original)) < NEIGHBORHOOD_SIZE
  /\ Len(get_down_tick_array_keys(Original)) = NEIGHBORHOOD_SIZE

\* the operations that take the adapter by shared reference
ReadOps ==
  {"get_accounts_to_update", "get_reserve_mints", "quote",
   "get_swap_and_account_metas", "get_accounts_len"}

\* what the read operation named op returns on the manager pm, for those
\* that take no argument
Returned(op, pm) ==
  IF op = "get_accounts_to_update" THEN get_accounts_to_update(pm)
  ELSE IF op = "get_reserve_mints" THEN get_reserve_mints(pm)
  ELSE IF op = "get_accounts_len" THEN <<get_accounts_len(pm)>>
  ELSE <<>>

\* C15: a read operation leaves the mirror as it was, so that every read
\* operation returns after it what it returned before it, for every argument;
\* what an argumentless one returned is what the mirror held before the call,
\* and the same call made twice in a row returned the same.
C15_ReadsArePure ==
  [][lastOp'.op \in ReadOps
       => /\ heap' = heap
          /\ amm' = amm
          /\ \A qp \in QuoteParamsSet : quote(Original', qp) = quote(Original, qp)
          /\ \A sp \in SwapParamsSet :
               get_swap_and_account_metas(Original', sp)
                 = get_swap_and_account_metas(Original, sp)
          /\ \A op \in ReadOps : Returned(op, Original') = Returned(op, Original)
          /\ lastOp'.result = Returned(lastOp'.op, Original)
          /\ lastOp.op = lastOp'.op => lastOp'.result = lastOp.result]_vars

\* a synchronized adapter has just listed the accounts of a neighborhood whose
\* down side is full
C15_Witness ==
  /\ lastOp.op = "get_accounts_to_update"
  /\ Synced(Original)
  /\ Len(get_down_tick_array_keys(Original)) = NEIGHBORHOOD_SIZE
  /\ Len(lastOp.result) > 4 + NEIGHBORHOOD_SIZE

\* C16: an update whose mapping holds every declared account, all decodable,
\* one tick array among them not existing on-chain yet, succeeds, and the
\* mirror then holds that tick array as uninitialized; an update whose mapping
\* lacks a declared tick array fails and the mirror holds nothing new.
C16_UninitializedIsAccepted ==
  lastOp.op = "update" =>
    /\ (/\ lastOp.uninit_declared # NoAddr
        /\ lastOp.first_absent = NoAddr
        /\ lastOp.bad_declared = NoAddr)
         => (/\ lastOp.ok
             /\ lastOp.uninit_declared \in DOMAIN Original.tick_arrays
             /\ Original.tick_arrays[lastOp.uninit_declared] = Uninit
             /\ Original.tick_arrays[lastOp.uninit_declared] \notin {NoData, Absent})
    /\ lastOp.first_absent \in TickArrayAddrs
         => (/\ ~lastOp.ok
             /\ lastOp.err = "TickArray account not found"
             /\ \A a \in DOMAIN Original.tick_arrays : Original.tick_arrays[a] # Absent)

\* an update has stored an uninitialized tick array and moved the price
C16_Witness ==
  /\ lastOp.op = "update"
  /\ lastOp.ok
  /\ lastOp.moved
  /\ lastOp.uninit_declared \in TickArrayAddrs
  /\ Uninit \in Range([i \in 1..Len(get_down_tick_array_keys(Original)) |->
                        IF get_down_tick_array_keys(Original)[i] \in DOMAIN Original.tick_arrays
                        THEN Original.tick_arrays[get_down_tick_array_keys(Original)[i]]
                        ELSE NoData])

====
